---- MODULE Spec2Model ----
(***************************************************************************)
(* Conway's Game of Life (React + TypeScript, src/src/App.tsx, the first   *)
(* App component of the file).  The model has the component's state (the   *)
(* useState cells and the useRef cells), one action per event handler, and *)
(* the grid functions createEmptyGrid, cloneGrid, countNeighbors and step  *)
(* as operators computed the way the code computes them.                   *)
(*                                                                         *)
(* A grid is a JavaScript array of Uint8Array rows: here a function from   *)
(* 0..length-1 to rows, a row being a function from 0..length-1 to 0..255. *)
(***************************************************************************)
EXTENDS Integers, Sequences, FiniteSets, TLC

VARIABLES
    rows,           \* useState(20)
    cols,           \* useState(30)
    grid,           \* useState(() => createEmptyGrid(rows, cols))
    wrapEdges,      \* useState(true)
    surviveCounts,  \* useState([2, 3]); surviveRef.current follows it
    birthCounts,    \* useState([3]); birthRef.current follows it
    pattern,        \* useState(''): the value shown by the pattern <select>
    running,        \* useState(false)
    runningRef,     \* useRef(false)
    rafRef,         \* useRef(null): 0 is null, else the id of the last request
    frames,         \* the animation-frame callbacks the browser still holds
    isMouseDown,    \* useRef(false)
    drawMode,       \* useRef(1)
    last,           \* history: the handler that ran last, its inputs, what it did
    ops,            \* history: how many handlers have run
    fn              \* the call record of the function harness (SpecFn)

vars == <<rows, cols, grid, wrapEdges, surviveCounts, birthCounts, pattern,
          running, runningRef, rafRef, frames, isMouseDown, drawMode, last,
          ops, fn>>

progVars == <<rows, cols, grid, wrapEdges, surviveCounts, birthCounts, pattern,
              running, runningRef, rafRef, frames, isMouseDown, drawMode, last,
              ops>>

----------------------------------------------------------------------------
(* Program constants *)

InitRows == 20
InitCols == 30
SliderMin == 5
SliderMax == 300

(* Bounds of the model *)

\* handlers run in one behaviour
MaxOps == 3
\* the largest Rows / Cols request the model makes (the slider goes to 300)
MaxDim == 6
\* the mouse reaches the cells 0..MaxPaint of each axis, and one cell past
\* each end of the axis
MaxPaint == 1
\* Math.random() is drawn RandPeriod times and the draws repeat in cell order
RandPeriod == 2
\* the rule checkboxes the model clicks are those of the counts 0..MaxBox
MaxBox == 2
\* the function harness tries every grid of at most FnMaxCells cells
FnMaxCells == 9
\* the pattern harness stamps on every grid of SliderMin..MaxPatDim rows and
\* columns, and on the grid of the constructed component
MaxPatDim == 8
\* the generations the pattern harness advances a stamped grid by
MaxGens == 2

----------------------------------------------------------------------------
(* Arrays *)

Length(a) == Cardinality(DOMAIN a)

Min(a, b) == IF a < b THEN a ELSE b

Max(a, b) == IF a > b THEN a ELSE b

\* JavaScript's %: the result has the sign of the dividend
JsMod(a, b) == IF a >= 0 THEN a % b ELSE 0 - ((0 - a) % b)

Uint8Array(n) == [c \in 0..(n - 1) |-> 0]

createEmptyGridSwapped(nrows, ncols) == [r \in 0..(ncols - 1) |-> Uint8Array(nrows)]

createEmptyGrid(nrows, ncols) == [r \in 0..(nrows - 1) |-> Uint8Array(ncols)]

cloneGrid(g) == [r \in DOMAIN g |-> [c \in DOMAIN g[r] |-> g[r][c]]]

\* lines 80-81 as if only the first count of the list were compared
IncludesFirst(list, n) == Len(list) > 0 /\ list[1] = n

\* Array.prototype.includes on a list of counts
Includes(list, n) == \E i \in 1..Len(list) : list[i] = n

----------------------------------------------------------------------------
(* countNeighbors, App.tsx 55-72.  The closure reads wrapEdges of the render *)
(* that created it: here the parameter wrap.                                 *)

\* line 61: if (dr === 0 && dc === 0) continue
SkipSelfNever(dr, dc) == FALSE

SkipSelf(dr, dc) == dr = 0 /\ dc = 0

\* lines 64-66: nr = (nr + R) % R; nc = (nc + C) % C; then g[nr][nc]
WrapCellRowOnly(g, R, C, nr, nc) ==
    IF nc < 0 \/ nc >= C THEN 0 ELSE g[JsMod(nr + R, R)][nc]

WrapCell(g, R, C, nr, nc) == g[JsMod(nr + R, R)][JsMod(nc + C, C)]

\* line 67: else if (nr < 0 || nr >= R || nc < 0 || nc >= C) continue
BoundedCellWrapping(g, R, C, nr, nc) == g[JsMod(nr + R, R)][JsMod(nc + C, C)]

BoundedCell(g, R, C, nr, nc) ==
    IF nr < 0 \/ nr >= R \/ nc < 0 \/ nc >= C THEN 0 ELSE g[nr][nc]

\* lines 61-68, the body of the two loops for one (dr, dc): what sum grows by
NeighborTerm(g, R, C, r, c, dr, dc, wrap) ==
    IF SkipSelf(dr, dc) THEN 0
    ELSE IF wrap THEN WrapCell(g, R, C, r + dr, c + dc)
         ELSE BoundedCell(g, R, C, r + dr, c + dc)

\* lines 56-71: the nine iterations of for (dr = -1..1) for (dc = -1..1)
countNeighbors(g, r, c, wrap) ==
    LET R == Length(g)
        C == Length(g[0])
    IN  NeighborTerm(g, R, C, r, c, -1, -1, wrap)
        + NeighborTerm(g, R, C, r, c, -1, 0, wrap)
        + NeighborTerm(g, R, C, r, c, -1, 1, wrap)
        + NeighborTerm(g, R, C, r, c, 0, -1, wrap)
        + NeighborTerm(g, R, C, r, c, 0, 0, wrap)
        + NeighborTerm(g, R, C, r, c, 0, 1, wrap)
        + NeighborTerm(g, R, C, r, c, 1, -1, wrap)
        + NeighborTerm(g, R, C, r, c, 1, 0, wrap)
        + NeighborTerm(g, R, C, r, c, 1, 1, wrap)

----------------------------------------------------------------------------
(* step, App.tsx 74-85.  The loop is run cell by cell over the pair of the   *)
(* array it reads (g) and the array it writes (newG), so that a write into   *)
(* the array being read would show.  survive and birth are surviveRef.current*)
(* and birthRef.current.                                                     *)

\* lines 79-81: the value stored for a cell with n live neighbors
NextCellIgnoringState(cell, n, survive, birth) ==
    IF Includes(survive, n) THEN 1 ELSE 0

\* lines 79-81 as if no dead cell were ever born
NextCellNoBirth(cell, n, survive, birth) ==
    IF cell # 0 /\ Includes(survive, n) THEN 1 ELSE 0

NextCell(cell, n, survive, birth) ==
    IF cell # 0
    THEN (IF Includes(survive, n) THEN 1 ELSE 0)
    ELSE (IF Includes(birth, n) THEN 1 ELSE 0)

\* line 79: newG[r][c] = ...
StepWriteInPlace(heap, r, c, v) ==
    [g |-> [heap.g EXCEPT ![r][c] = v], newG |-> [heap.newG EXCEPT ![r][c] = v]]

StepWrite(heap, r, c, v) ==
    [g |-> heap.g, newG |-> [heap.newG EXCEPT ![r][c] = v]]

\* lines 77-82: the inner loop, for (c = 0; c < g[0].length; c++), from c
RECURSIVE StepCols(_, _, _, _, _, _)
StepCols(heap, r, c, survive, birth, wrap) ==
    IF c >= Length(heap.g[0]) THEN heap
    ELSE StepCols(StepWrite(heap, r, c,
                            NextCell(heap.g[r][c],
                                     countNeighbors(heap.g, r, c, wrap),
                                     survive, birth)),
                  r, c + 1, survive, birth, wrap)

\* lines 76-83: the outer loop, for (r = 0; r < g.length; r++), from r
RECURSIVE StepRows(_, _, _, _, _)
StepRows(heap, r, survive, birth, wrap) ==
    IF r >= Length(heap.g) THEN heap
    ELSE StepRows(StepCols(heap, r, 0, survive, birth, wrap),
                  r + 1, survive, birth, wrap)

\* the two arrays when step returns: g as the caller still holds it, and newG
StepRun(g, survive, birth, wrap) ==
    StepRows([g |-> g, newG |-> createEmptyGrid(Length(g), Length(g[0]))],
             0, survive, birth, wrap)

step(g, survive, birth, wrap) == StepRun(g, survive, birth, wrap).newG

----------------------------------------------------------------------------
(* Stores into a grid.  g[r] of a missing row is undefined and g[r][c] = v  *)
(* then throws a TypeError; a store past the end of a Uint8Array is ignored.*)

HasRow(g, r) == r \in DOMAIN g

Store(g, r, c, v) == IF c \in DOMAIN g[r] THEN [g EXCEPT ![r][c] = v] ELSE g

\* line 158 as if the cell were not read: every gesture paints live cells
TruthyNever(g, r, c) == FALSE

\* g[r][c] read as a condition: undefined (past the end of the row) is falsy
Truthy(g, r, c) == c \in DOMAIN g[r] /\ g[r][c] # 0

\* TypedArray.prototype.set(source): source copied to the start of target
RowSet(target, source) ==
    [c \in DOMAIN target |-> IF c \in DOMAIN source THEN source[c] ELSE target[c]]

\* TypedArray.prototype.slice(0, end)
RowSlice(row, end) == [c \in 0..(Min(end, Length(row)) - 1) |-> row[c]]

----------------------------------------------------------------------------
(* The state after construction, App.tsx 16-40 *)

\* last: op is the handler, a and b its inputs, threw whether it ended in an
\* uncaught error; for a slider, lost is the set of live cells the new
\* dimensions cut off, and back the cells among the lost of the slider move
\* just before that lie inside the new dimensions
NoOp == [op |-> "init", a |-> 0, b |-> 0, threw |-> FALSE, lost |-> {}, back |-> {}]

Did(name, a, b) ==
    [op |-> name, a |-> a, b |-> b, threw |-> FALSE, lost |-> {}, back |-> {}]

Threw(name, a, b) ==
    [op |-> name, a |-> a, b |-> b, threw |-> TRUE, lost |-> {}, back |-> {}]

\* the live cells of the grid that lie outside nrows x ncols
CutOff(g, nrows, ncols) ==
    UNION {{<<r, c>> : c \in {x \in DOMAIN g[r] :
                                  (r >= nrows \/ x >= ncols) /\ g[r][x] # 0}} :
           r \in DOMAIN g}

Resized(name, a, b, nrows, ncols) ==
    [op |-> name, a |-> a, b |-> b, threw |-> FALSE,
     lost |-> CutOff(grid, nrows, ncols),
     back |-> {rc \in last.lost : rc[1] < nrows /\ rc[2] < ncols}]

FnIdle == [call |-> "none"]

\* the refs and the state cells other than the grid and its dimensions
RestInit ==
    /\ wrapEdges = TRUE
    /\ surviveCounts = <<2, 3>>
    /\ birthCounts = <<3>>
    /\ pattern = ""
    /\ running = FALSE
    /\ runningRef = FALSE
    /\ rafRef = 0
    /\ frames = {}
    /\ isMouseDown = FALSE
    /\ drawMode = 1
    /\ last = NoOp
    /\ ops = 0

Init ==
    /\ rows = InitRows
    /\ cols = InitCols
    /\ grid = createEmptyGrid(InitRows, InitCols)
    /\ RestInit
    /\ fn = FnIdle

\* The model moves the sliders on any grid, and runs the other handlers on
\* grids of at most MaxDim x MaxDim cells only: from the 20 x 30 grid of the
\* constructed component the sliders are moved first.
Small == rows <= MaxDim /\ cols <= MaxDim

\* every handler runs to its end before the next event is taken; ops counts
\* the handlers run on small grids
Counted(l) ==
    /\ ops < MaxOps
    /\ ops' = (IF Small THEN ops + 1 ELSE ops)
    /\ last' = l
    /\ fn' = fn

Ran(l) == Small /\ Counted(l)

----------------------------------------------------------------------------
(* Painting, App.tsx 147-178.  x and y are the cell coordinates the handler *)
(* computes from the event: x the column, y the row.                        *)

\* lines 157 and 175: if (y >= 0 && y < rows && x >= 0 && x < cols)
InBoundsInclusive(y, x) == y >= 0 /\ y <= rows /\ x >= 0 /\ x <= cols

InBounds(y, x) == y >= 0 /\ y < rows /\ x >= 0 /\ x < cols

\* the cells the mouse is put on: -1 and n are outside an axis of n cells
PaintCoords(n) == (-1..MaxPaint) \cup {n}

handleMouseDown(x, y) ==
    LET ng == cloneGrid(grid)
        mode == IF Truthy(ng, y, x) THEN 0 ELSE 1
    IN  /\ isMouseDown' = TRUE
        /\ IF InBounds(y, x)
           THEN IF HasRow(ng, y)
                THEN /\ drawMode' = mode
                     /\ grid' = Store(ng, y, x, mode)
                     /\ Ran(Did("mouseDown", y, x))
                ELSE /\ UNCHANGED <<drawMode, grid>>
                     /\ Ran(Threw("mouseDown", y, x))
           ELSE /\ grid' = ng
                /\ UNCHANGED drawMode
                /\ Ran(Did("mouseDown", y, x))
        /\ UNCHANGED <<rows, cols, wrapEdges, surviveCounts, birthCounts,
                       pattern, running, runningRef, rafRef, frames>>

\* line 164 as if the release were not recorded
handleMouseUpKeepsDown ==
    /\ isMouseDown' = isMouseDown
    /\ Ran(Did("mouseUp", 0, 0))
    /\ UNCHANGED <<rows, cols, grid, wrapEdges, surviveCounts, birthCounts,
                   pattern, running, runningRef, rafRef, frames, drawMode>>

handleMouseUp ==
    /\ isMouseDown' = FALSE
    /\ Ran(Did("mouseUp", 0, 0))
    /\ UNCHANGED <<rows, cols, grid, wrapEdges, surviveCounts, birthCounts,
                   pattern, running, runningRef, rafRef, frames, drawMode>>

handleMouseMove(x, y) ==
    LET ng == cloneGrid(grid)
    IN  /\ IF ~isMouseDown
           THEN /\ UNCHANGED grid
                /\ Ran(Did("mouseMove", y, x))
           ELSE IF InBounds(y, x)
           THEN IF HasRow(ng, y)
                THEN /\ grid' = Store(ng, y, x, drawMode)
                     /\ Ran(Did("mouseMove", y, x))
                ELSE /\ UNCHANGED grid
                     /\ Ran(Threw("mouseMove", y, x))
           ELSE /\ grid' = ng
                /\ Ran(Did("mouseMove", y, x))
        /\ UNCHANGED <<rows, cols, wrapEdges, surviveCounts, birthCounts,
                       pattern, running, runningRef, rafRef, frames,
                       isMouseDown, drawMode>>

----------------------------------------------------------------------------
(* Randomize, Clear, Step, App.tsx 180-188 *)

\* the outcomes of Math.random() < fillProb, draw by draw
Draws == [0..(RandPeriod - 1) -> BOOLEAN]

\* lines 181-185: the cells are drawn row by row
RandomGrid(nrows, ncols, draws) ==
    LET ng == createEmptyGrid(nrows, ncols)
    IN  [r \in DOMAIN ng |->
            [c \in DOMAIN ng[r] |->
                IF draws[(r * Length(ng[0]) + c) % RandPeriod] THEN 1 ELSE 0]]

randomize(draws) ==
    /\ grid' = RandomGrid(rows, cols, draws)
    /\ Ran(Did("randomize", 0, 0))
    /\ UNCHANGED <<rows, cols, wrapEdges, surviveCounts, birthCounts, pattern,
                   running, runningRef, rafRef, frames, isMouseDown, drawMode>>

\* line 187 as if Clear stopped the loop too
clearAndStop ==
    /\ grid' = createEmptyGrid(rows, cols)
    /\ running' = FALSE
    /\ runningRef' = FALSE
    /\ frames' = {}
    /\ Ran(Did("clear", 0, 0))
    /\ UNCHANGED <<rows, cols, wrapEdges, surviveCounts, birthCounts, pattern,
                   rafRef, isMouseDown, drawMode>>

clear ==
    /\ grid' = createEmptyGrid(rows, cols)
    /\ Ran(Did("clear", 0, 0))
    /\ UNCHANGED <<rows, cols, wrapEdges, surviveCounts, birthCounts, pattern,
                   running, runningRef, rafRef, frames, isMouseDown, drawMode>>

\* line 188 as if the Step button did nothing while the loop runs
stepOnceWhenStopped ==
    /\ grid' = (IF running THEN grid
                ELSE step(grid, surviveCounts, birthCounts, wrapEdges))
    /\ Ran(Did("stepOnce", 0, 0))
    /\ UNCHANGED <<rows, cols, wrapEdges, surviveCounts, birthCounts, pattern,
                   running, runningRef, rafRef, frames, isMouseDown, drawMode>>

\* step of this render closes over this render's wrapEdges
stepOnce ==
    /\ grid' = step(grid, surviveCounts, birthCounts, wrapEdges)
    /\ Ran(Did("stepOnce", 0, 0))
    /\ UNCHANGED <<rows, cols, wrapEdges, surviveCounts, birthCounts, pattern,
                   running, runningRef, rafRef, frames, isMouseDown, drawMode>>

----------------------------------------------------------------------------
(* The run loop, App.tsx 126-145.  A pending animation-frame callback is a  *)
(* record of its id and of the wrapEdges its closure holds: loop calls the  *)
(* step of the render in which toggleRunning started it.                    *)

\* requestAnimationFrame returns the id after the one it returned last; the
\* component stores every id it is given in rafRef, so rafRef is the last id
FreshId(lastId) == lastId + 1

\* line 144 as if the callback were left with the browser
CancelNothing(pending, id) == pending

\* cancelAnimationFrame(id)
Cancel(pending, id) == {f \in pending : f.id # id}

\* lines 140-145 as if Stop only set the state cell: runningRef stays set
\* and the pending callback is left with the browser
toggleRunningByState ==
    /\ running' = ~running
    /\ IF ~running
       THEN /\ runningRef' = TRUE
            /\ frames' = frames \cup {[id |-> FreshId(rafRef), wrap |-> wrapEdges]}
            /\ rafRef' = FreshId(rafRef)
       ELSE UNCHANGED <<runningRef, frames, rafRef>>
    /\ Ran(Did("toggleRunning", 0, 0))
    /\ UNCHANGED <<rows, cols, grid, wrapEdges, surviveCounts, birthCounts,
                   pattern, isMouseDown, drawMode>>

toggleRunning ==
    /\ runningRef' = ~runningRef
    /\ running' = ~runningRef
    /\ IF ~runningRef
       THEN /\ frames' = frames \cup {[id |-> FreshId(rafRef), wrap |-> wrapEdges]}
            /\ rafRef' = FreshId(rafRef)
       ELSE /\ frames' = (IF rafRef # 0 THEN Cancel(frames, rafRef) ELSE frames)
            /\ UNCHANGED rafRef
    /\ Ran(Did("toggleRunning", 0, 0))
    /\ UNCHANGED <<rows, cols, grid, wrapEdges, surviveCounts, birthCounts,
                   pattern, isMouseDown, drawMode>>

\* the browser calls the callback f; due is time - lastTime >= interval
loop(f, due) ==
    LET rest == frames \ {f}
    IN  /\ f \in frames
        /\ IF ~runningRef
           THEN /\ frames' = rest
                /\ UNCHANGED <<grid, rafRef>>
                /\ Ran(Did("loop", 0, f.id))
           ELSE /\ grid' = (IF due
                            THEN step(grid, surviveCounts, birthCounts, f.wrap)
                            ELSE grid)
                /\ frames' = rest \cup {[id |-> FreshId(rafRef), wrap |-> f.wrap]}
                /\ rafRef' = FreshId(rafRef)
                /\ Ran(Did("loop", IF due THEN 1 ELSE 0, f.id))
        /\ UNCHANGED <<rows, cols, wrapEdges, surviveCounts, birthCounts,
                       pattern, running, runningRef, isMouseDown, drawMode>>

----------------------------------------------------------------------------
(* The Rows and Cols sliders, App.tsx 207-222 and 287-305 *)

\* <input type="range" min max>: the element keeps its value within min..max
RangeValueUnclamped(asked, min, max) == asked

RangeValue(asked, min, max) == Max(min, Min(max, asked))

\* the slider positions the model asks for; 0 is below the slider's minimum
Requests == {0} \cup (SliderMin..MaxDim)

\* line 211: for (r < Math.min(g.length, newRows)) newGrid[r].set(g[r])
CopiedRowsAll(g, newRows) == Length(g)

CopiedRows(g, newRows) == Min(Length(g), newRows)

handleRowsChange(newRows, asked) ==
    LET n == CopiedRows(grid, newRows)
    IN  /\ rows' = newRows
        /\ IF n > newRows \/ \E r \in 0..(n - 1) : Length(grid[r]) > cols
           THEN /\ UNCHANGED grid
                /\ Counted(Threw("rows", newRows, asked))
           ELSE /\ grid' = [r \in 0..(newRows - 1) |->
                               IF r < n THEN RowSet(Uint8Array(cols), grid[r])
                               ELSE Uint8Array(cols)]
                /\ Counted(Resized("rows", newRows, asked, newRows, cols))
        /\ UNCHANGED <<cols, wrapEdges, surviveCounts, birthCounts, pattern,
                       running, runningRef, rafRef, frames, isMouseDown,
                       drawMode>>

\* line 219: newRow.set(row.slice(0, Math.min(row.length, newCols)))
NewRowKeepingLast(row, newCols) ==
    [c \in 0..(newCols - 1) |->
        IF Length(row) = 0 THEN 0 ELSE row[Min(c, Length(row) - 1)]]

NewRow(row, newCols) ==
    RowSet(Uint8Array(newCols), RowSlice(row, Min(Length(row), newCols)))

handleColsChange(newCols, asked) ==
    /\ cols' = newCols
    /\ grid' = [r \in DOMAIN grid |-> NewRow(grid[r], newCols)]
    /\ Counted(Resized("cols", newCols, asked, rows, newCols))
    /\ UNCHANGED <<rows, wrapEdges, surviveCounts, birthCounts, pattern,
                   running, runningRef, rafRef, frames, isMouseDown, drawMode>>

\* onChange of a slider: the element's value has changed
rowsSlider(asked) ==
    /\ RangeValue(asked, SliderMin, SliderMax) # rows
    /\ handleRowsChange(RangeValue(asked, SliderMin, SliderMax), asked)

colsSlider(asked) ==
    /\ RangeValue(asked, SliderMin, SliderMax) # cols
    /\ handleColsChange(RangeValue(asked, SliderMin, SliderMax), asked)

----------------------------------------------------------------------------
(* Patterns, App.tsx 224-233 and 348-366 *)

patternOptions == {"Glider", "Blinker", "Block"}

Offsets(pat) ==
    CASE pat = "Glider" -> <<<<1, 0>>, <<2, 1>>, <<0, 2>>, <<1, 2>>, <<2, 2>>>>
      [] pat = "Blinker" -> <<<<0, 0>>, <<0, 1>>, <<0, 2>>>>
      [] pat = "Block" -> <<<<0, 0>>, <<0, 1>>, <<1, 0>>, <<1, 1>>>>
      [] OTHER -> <<>>

\* lines 226-227: Math.floor(rows / 2), Math.floor(cols / 2)
CenterCeil(n) == (n + 1) \div 2

Center(n) == n \div 2

\* forEach(([r, c]) => ng[centerR + r][centerC + c] = 1), from the i-th offset
RECURSIVE StampFrom(_, _, _, _, _)
StampFrom(ng, offs, centerR, centerC, i) ==
    IF i > Len(offs) THEN ng
    ELSE StampFrom(Store(ng, centerR + offs[i][1], centerC + offs[i][2], 1),
                   offs, centerR, centerC, i + 1)

StampThrows(ng, offs, centerR) ==
    \E i \in 1..Len(offs) : ~HasRow(ng, centerR + offs[i][1])

\* onChange of the <select>: setPattern(value); applyPattern(value)
applyPattern(pat) ==
    LET centerR == Center(rows)
        centerC == Center(cols)
        ng == createEmptyGrid(rows, cols)
    IN  /\ pat # pattern
        /\ pattern' = pat
        /\ IF StampThrows(ng, Offsets(pat), centerR)
           THEN /\ UNCHANGED grid
                /\ Ran(Threw("applyPattern", 0, 0))
           ELSE /\ grid' = StampFrom(ng, Offsets(pat), centerR, centerC, 1)
                /\ Ran(Did("applyPattern", 0, 0))
        /\ UNCHANGED <<rows, cols, wrapEdges, surviveCounts, birthCounts,
                       running, runningRef, rafRef, frames, isMouseDown,
                       drawMode>>

----------------------------------------------------------------------------
(* Wrap Edges and the rule checkboxes, App.tsx 342 and 373-403 *)

setWrapEdges ==
    /\ wrapEdges' = ~wrapEdges
    /\ Ran(Did("setWrapEdges", 0, 0))
    /\ UNCHANGED <<rows, cols, grid, surviveCounts, birthCounts, pattern,
                   running, runningRef, rafRef, frames, isMouseDown, drawMode>>

\* prev.filter(x => x !== n)
RECURSIVE Without(_, _)
Without(list, n) ==
    IF list = <<>> THEN <<>>
    ELSE IF Head(list) = n THEN Without(Tail(list), n)
         ELSE <<Head(list)>> \o Without(Tail(list), n)

\* line 380 as if the box's new state were not looked at
ToggledAlwaysAdds(prev, n, checked) == Append(prev, n)

\* prev => checked ? [...prev, n] : prev.filter(x => x !== n)
Toggled(prev, n, checked) == IF checked THEN Append(prev, n) ELSE Without(prev, n)

\* the checkbox shows includes(n); a click reports the opposite as checked
surviveBox(n) ==
    /\ surviveCounts' = Toggled(surviveCounts, n, ~Includes(surviveCounts, n))
    /\ Ran(Did("surviveBox", n, 0))
    /\ UNCHANGED <<rows, cols, grid, wrapEdges, birthCounts, pattern, running,
                   runningRef, rafRef, frames, isMouseDown, drawMode>>

birthBox(n) ==
    /\ birthCounts' = Toggled(birthCounts, n, ~Includes(birthCounts, n))
    /\ Ran(Did("birthBox", n, 0))
    /\ UNCHANGED <<rows, cols, grid, wrapEdges, surviveCounts, pattern, running,
                   runningRef, rafRef, frames, isMouseDown, drawMode>>

----------------------------------------------------------------------------
(* The program *)

Next ==
    \/ \E x \in PaintCoords(cols), y \in PaintCoords(rows) : handleMouseDown(x, y)
    \/ \E x \in PaintCoords(cols), y \in PaintCoords(rows) : handleMouseMove(x, y)
    \/ handleMouseUp
    \/ \E draws \in Draws : randomize(draws)
    \/ clear
    \/ stepOnce
    \/ toggleRunning
    \/ \E f \in frames, due \in BOOLEAN : loop(f, due)
    \/ \E asked \in Requests : rowsSlider(asked)
    \/ \E asked \in Requests : colsSlider(asked)
    \/ \E pat \in patternOptions \cup {""} : applyPattern(pat)
    \/ setWrapEdges
    \/ \E n \in 0..MaxBox : surviveBox(n)
    \/ \E n \in 0..MaxBox : birthBox(n)

Spec == Init /\ [][Next]_vars

----------------------------------------------------------------------------
(* The function harness: countNeighbors, step and the slider's clamp called  *)
(* once on arguments drawn from bounded sets, the call and what it returned  *)
(* kept in fn.                                                               *)

FnDims == {d \in (1..FnMaxCells) \X (1..FnMaxCells) : d[1] * d[2] <= FnMaxCells}

GridsOf(nrows, ncols) == [0..(nrows - 1) -> [0..(ncols - 1) -> {0, 1}]]

FnGrids == UNION {GridsOf(d[1], d[2]) : d \in FnDims}

\* the (survive, birth) lists the harness passes to step: every count of 0..8
\* is in a survive list and in a birth list, and missing from another
AllCounts == <<0, 1, 2, 3, 4, 5, 6, 7, 8>>

FnRules == {<<<<2, 3>>, <<3>>>>, <<<<3>>, <<2, 3>>>>,
            <<<<>>, AllCounts>>, <<AllCounts, <<>>>>,
            <<<<8, 0, 4>>, <<1, 5, 6, 7>>>>, <<<<1, 5, 6, 7>>, <<8, 0, 4>>>>}

\* the slider positions the harness asks for
FnAsked == {-1, 0, SliderMin - 1, SliderMin, SliderMin + 1, SliderMax - 1,
            SliderMax, SliderMax + 1}

\* the harness holds its grid as the component's grid
FnInit ==
    /\ fn \in {[call |-> "none", g |-> g] : g \in FnGrids}
    /\ grid = fn.g
    /\ rows = Length(fn.g)
    /\ cols = Length(fn.g[0])
    /\ RestInit

FnCount(r, c, wrap) ==
    /\ fn.call = "none"
    /\ fn' = [call |-> "countNeighbors", g |-> fn.g, r |-> r, c |-> c,
              wrap |-> wrap, n |-> countNeighbors(fn.g, r, c, wrap)]
    /\ UNCHANGED progVars

FnStep(survive, birth, wrap) ==
    LET heap == StepRun(fn.g, survive, birth, wrap)
    IN  /\ fn.call = "none"
        /\ fn' = [call |-> "step", g |-> fn.g, survive |-> survive,
                  birth |-> birth, wrap |-> wrap, after |-> heap.g,
                  out |-> heap.newG]
        /\ UNCHANGED progVars

FnRange(asked) ==
    /\ fn.call = "none"
    /\ fn' = [call |-> "range", g |-> fn.g, asked |-> asked,
              value |-> RangeValue(asked, SliderMin, SliderMax)]
    /\ UNCHANGED progVars

FnNext ==
    \/ \E r \in DOMAIN fn.g, c \in DOMAIN fn.g[0], wrap \in BOOLEAN :
           FnCount(r, c, wrap)
    \/ \E rules \in FnRules, wrap \in BOOLEAN : FnStep(rules[1], rules[2], wrap)
    \/ \E asked \in FnAsked : FnRange(asked)

SpecFn == FnInit /\ [][FnNext]_vars

\* the slider positions asked for where only the sliders are moved: below
\* the minimum, within the range, above the maximum
DimRequests == {-1, 0, SliderMin - 1} \cup (SliderMin..MaxDim)
               \cup {SliderMax, SliderMax + 1}

DimNext ==
    \/ \E asked \in DimRequests : rowsSlider(asked)
    \/ \E asked \in DimRequests : colsSlider(asked)

\* the component with the Rows and Cols sliders alone being moved
SpecDims == Init /\ [][DimNext]_vars

\* the rule checkboxes alone being clicked, all nine of each row, on the
\* smallest grid
RulesInit ==
    /\ rows = SliderMin
    /\ cols = SliderMin
    /\ grid = createEmptyGrid(SliderMin, SliderMin)
    /\ RestInit
    /\ fn = FnIdle

RulesNext ==
    \/ \E n \in DOMAIN Uint8Array(9) : surviveBox(n)
    \/ \E n \in DOMAIN Uint8Array(9) : birthBox(n)

SpecRules == RulesInit /\ [][RulesNext]_vars

\* the run loop, the Step button and the Wrap Edges checkbox alone, on the
\* smallest grid, holding what Randomize can draw or the cells of a pattern
LoopGrids ==
    {RandomGrid(SliderMin, SliderMin, draws) : draws \in Draws}
    \cup {StampFrom(createEmptyGrid(SliderMin, SliderMin), Offsets(pat),
                    Center(SliderMin), Center(SliderMin), 1) :
              pat \in patternOptions}

LoopInit ==
    /\ rows = SliderMin
    /\ cols = SliderMin
    /\ grid \in LoopGrids
    /\ RestInit
    /\ fn = FnIdle

LoopNext ==
    \/ toggleRunning
    \/ \E f \in frames, due \in BOOLEAN : loop(f, due)
    \/ stepOnce
    \/ setWrapEdges

SpecLoop == LoopInit /\ [][LoopNext]_vars

\* The pattern harness: a pattern chosen on an empty grid, then the grid
\* advanced by step, the stamped grid and the number of steps kept in fn.
PatDims ==
    ((SliderMin..MaxPatDim) \X (SliderMin..MaxPatDim))
    \cup {<<InitRows, InitCols>>}

PatInit ==
    /\ \E d \in PatDims :
          /\ rows = d[1]
          /\ cols = d[2]
          /\ grid = createEmptyGrid(d[1], d[2])
    /\ wrapEdges \in BOOLEAN
    /\ surviveCounts = <<2, 3>>
    /\ birthCounts = <<3>>
    /\ pattern = ""
    /\ running = FALSE
    /\ runningRef = FALSE
    /\ rafRef = 0
    /\ frames = {}
    /\ isMouseDown = FALSE
    /\ drawMode = 1
    /\ last = NoOp
    /\ ops = 0
    /\ fn = FnIdle

\* applyPattern(pat) from the pattern menu
PatStamp(pat) ==
    LET ng == StampFrom(createEmptyGrid(rows, cols), Offsets(pat),
                        Center(rows), Center(cols), 1)
    IN  /\ fn.call = "none"
        /\ ~StampThrows(createEmptyGrid(rows, cols), Offsets(pat), Center(rows))
        /\ pattern' = pat
        /\ grid' = ng
        /\ fn' = [call |-> "pattern", stamped |-> ng, n |-> 0]
        /\ last' = Did("applyPattern", 0, 0)
        /\ UNCHANGED <<rows, cols, wrapEdges, surviveCounts, birthCounts,
                       running, runningRef, rafRef, frames, isMouseDown,
                       drawMode, ops>>

\* setGrid((g) => step(g)) by the step of the current render
PatStep ==
    /\ fn.call = "pattern"
    /\ fn.n < MaxGens
    /\ grid' = step(grid, surviveCounts, birthCounts, wrapEdges)
    /\ fn' = [fn EXCEPT !.n = fn.n + 1]
    /\ last' = Did("stepOnce", 0, 0)
    /\ UNCHANGED <<rows, cols, wrapEdges, surviveCounts, birthCounts, pattern,
                   running, runningRef, rafRef, frames, isMouseDown, drawMode,
                   ops>>

PatNext ==
    \/ \E pat \in patternOptions : PatStamp(pat)
    \/ PatStep

SpecPat == PatInit /\ [][PatNext]_vars

----------------------------------------------------------------------------
(* Properties *)

\* the counts a list holds, as a set
CountsIn(list) == {list[i] : i \in 1..Len(list)}

\* the eight Moore offsets
Moore == {d \in (-1..1) \X (-1..1) : d # <<0, 0>>}

SameShape(g, h) ==
    /\ DOMAIN g = DOMAIN h
    /\ \A r \in DOMAIN g : DOMAIN g[r] = DOMAIN h[r]

\* C1: the grid step returns has the dimensions of its input, and each of its
\* cells is alive exactly when the input cell is alive with a neighbor count
\* in the survive list, or dead with a neighbor count in the birth list.
C1_StepAppliesRule ==
    fn.call = "step" =>
        /\ SameShape(fn.out, fn.g)
        /\ \A r \in DOMAIN fn.g : \A c \in DOMAIN fn.g[r] :
              LET n == countNeighbors(fn.g, r, c, fn.wrap)
              IN  /\ fn.out[r][c] \in {0, 1}
                  /\ fn.out[r][c] = 1 <=>
                        \/ fn.g[r][c] = 1 /\ n \in CountsIn(fn.survive)
                        \/ fn.g[r][c] = 0 /\ n \in CountsIn(fn.birth)

\* step has made a cell survive, die, be born and stay dead in one call
C1_Witness ==
    /\ fn.call = "step"
    /\ \E r \in DOMAIN fn.g : \E c \in DOMAIN fn.g[r] :
          fn.g[r][c] = 1 /\ fn.out[r][c] = 1
    /\ \E r \in DOMAIN fn.g : \E c \in DOMAIN fn.g[r] :
          fn.g[r][c] = 1 /\ fn.out[r][c] = 0
    /\ \E r \in DOMAIN fn.g : \E c \in DOMAIN fn.g[r] :
          fn.g[r][c] = 0 /\ fn.out[r][c] = 1
    /\ \E r \in DOMAIN fn.g : \E c \in DOMAIN fn.g[r] :
          fn.g[r][c] = 0 /\ fn.out[r][c] = 0

\* C2: when step returns, the array it was given holds what it held at the
\* call, and every cell of the result is the rule applied to the neighbor
\* count of that cell in the array as it was at the call.
C2_StepKeepsInput ==
    fn.call = "step" =>
        /\ fn.after = fn.g
        /\ SameShape(fn.out, fn.g)
        /\ \A r \in DOMAIN fn.g : \A c \in DOMAIN fn.g[r] :
              fn.out[r][c] = NextCell(fn.g[r][c],
                                      countNeighbors(fn.g, r, c, fn.wrap),
                                      fn.survive, fn.birth)

\* step has returned a grid that differs from its input
C2_Witness == fn.call = "step" /\ fn.out # fn.g /\ fn.after = fn.g

\* the grid of nrows x ncols cells with the cell (0, 0) alive and no other
OnlyOrigin(nrows, ncols) ==
    [r \in 0..(nrows - 1) |->
        [c \in 0..(ncols - 1) |-> IF r = 0 /\ c = 0 THEN 1 ELSE 0]]

\* C3: with wrapEdges, countNeighbors is the number of the eight Moore
\* offsets (dr, dc) at which g[(r + dr) mod rows][(c + dc) mod cols] is
\* alive; on the 3 x 3 grid with (0, 0) alone alive it is 1 at (2, 2), (2, 0),
\* (0, 2), (1, 0), (0, 1) and (1, 1).
C3_WrapCount ==
    (fn.call = "countNeighbors" /\ fn.wrap) =>
        LET R == Length(fn.g)
            C == Length(fn.g[0])
        IN  /\ fn.n = Cardinality({d \in Moore :
                         fn.g[(fn.r + d[1]) % R][(fn.c + d[2]) % C] = 1})
            /\ (fn.g = OnlyOrigin(3, 3)
                /\ <<fn.r, fn.c>> \in {<<2, 2>>, <<2, 0>>, <<0, 2>>, <<1, 0>>,
                                       <<0, 1>>, <<1, 1>>})
               => fn.n = 1

\* the neighbors of the corner (2, 2) of the 3 x 3 grid have been counted
\* across both edges
C3_Witness ==
    /\ fn.call = "countNeighbors"
    /\ fn.wrap
    /\ fn.g = OnlyOrigin(3, 3)
    /\ fn.r = 2
    /\ fn.c = 2
    /\ fn.n = 1

\* how many of the two coordinates lie on the border of the grid
OnBorder(i, n) == i = 0 \/ i = n - 1

\* C4: without wrapEdges, countNeighbors is the number of live cells among
\* the Moore neighbors that lie inside the grid: at most 3 at a corner, at
\* most 5 at an edge cell that is no corner, at most 8 elsewhere.
C4_BoundedCount ==
    (fn.call = "countNeighbors" /\ ~fn.wrap) =>
        LET R == Length(fn.g)
            C == Length(fn.g[0])
            inside == {d \in Moore : /\ fn.r + d[1] \in 0..(R - 1)
                                     /\ fn.c + d[2] \in 0..(C - 1)}
        IN  /\ fn.n = Cardinality({d \in inside :
                                      fn.g[fn.r + d[1]][fn.c + d[2]] = 1})
            /\ (OnBorder(fn.r, R) /\ OnBorder(fn.c, C)) => fn.n <= 3
            /\ (OnBorder(fn.r, R) \/ OnBorder(fn.c, C)) => fn.n <= 5
            /\ fn.n <= 8

\* a corner with its three neighbors alive has been counted, where the cells
\* across the edges are alive too
C4_Witness ==
    /\ fn.call = "countNeighbors"
    /\ ~fn.wrap
    /\ fn.g = [r \in 0..2 |-> [c \in 0..2 |-> 1]]
    /\ fn.r = 0
    /\ fn.c = 0
    /\ fn.n = 3

\* C5: in every state the component reaches, countNeighbors of the grid is
\* in 0..8 at every cell, with and without wrapEdges.
C5_CountRange ==
    \A r \in DOMAIN grid : \A c \in DOMAIN grid[r] : \A wrap \in BOOLEAN :
        countNeighbors(grid, r, c, wrap) \in 0..8

\* a handler has left a grid in which a cell has all eight neighbors alive
C5_Witness ==
    /\ last.op # "init"
    /\ \E r \in DOMAIN grid : \E c \in DOMAIN grid[r] :
          /\ grid[r][c] = 1
          /\ countNeighbors(grid, r, c, FALSE) = 8
          /\ countNeighbors(grid, r, c, TRUE) = 8

\* new is a grid of nrows x ncols cells that holds the cells of old in the
\* rectangle the two grids share, and dead cells elsewhere
ResizedFrom(old, new, nrows, ncols) ==
    /\ DOMAIN new = 0..(nrows - 1)
    /\ \A r \in DOMAIN new :
          /\ DOMAIN new[r] = 0..(ncols - 1)
          /\ \A c \in DOMAIN new[r] :
                new[r][c] = IF r \in DOMAIN old /\ c \in DOMAIN old[r]
                            THEN old[r][c] ELSE 0

\* C6: a move of the Rows or of the Cols slider leaves a grid of the new
\* dimensions that holds the old cells in the top-left rectangle the two
\* grids share and dead cells elsewhere; and the live cells a move cut off
\* are dead when the next move brings their places back.
C6_ResizeKeepsOverlap ==
    /\ [][/\ last'.op = "rows" =>
                /\ ~last'.threw
                /\ rows' = last'.a
                /\ cols' = cols
                /\ ResizedFrom(grid, grid', last'.a, cols)
          /\ last'.op = "cols" =>
                /\ ~last'.threw
                /\ cols' = last'.a
                /\ rows' = rows
                /\ ResizedFrom(grid, grid', rows, last'.a)]_vars
    /\ [](\A rc \in last.back : grid[rc[1]][rc[2]] = 0)

\* a slider has been moved back over places where the move before it cut
\* live cells off, and cells the two moves kept are still alive
C6_Witness ==
    /\ last.op \in {"rows", "cols"}
    /\ last.back # {}
    /\ \E r \in DOMAIN grid : \E c \in DOMAIN grid[r] : grid[r][c] = 1

\* C7: in every state the grid has rows rows, every row has cols cells, and
\* every cell is 0 or 1.
C7_GridShape ==
    /\ DOMAIN grid = 0..(rows - 1)
    /\ \A r \in DOMAIN grid :
          /\ DOMAIN grid[r] = 0..(cols - 1)
          /\ \A c \in DOMAIN grid[r] : grid[r][c] \in {0, 1}

\* three handlers have run, the last a move of the Cols slider, on a grid
\* that has live cells and is not square
C7_Witness ==
    /\ ops = MaxOps
    /\ last.op = "cols"
    /\ rows # cols
    /\ \E r \in DOMAIN grid : \E c \in DOMAIN grid[r] : grid[r][c] = 1

OutOfBounds(y, x) == y \notin 0..(rows - 1) \/ x \notin 0..(cols - 1)

\* C8: a mouse-down or mouse-move raises no error; at a cell outside the grid
\* it leaves the grid and the draw mode as they were; at a cell of the grid
\* it leaves every other cell as it was.
C8_PaintOneCell ==
    [][last'.op \in {"mouseDown", "mouseMove"} =>
          /\ ~last'.threw
          /\ OutOfBounds(last'.a, last'.b) => (grid' = grid /\ drawMode' = drawMode)
          /\ SameShape(grid', grid)
          /\ \A r \in DOMAIN grid : \A c \in DOMAIN grid[r] :
                <<r, c>> # <<last'.a, last'.b>> => grid'[r][c] = grid[r][c]]_vars

\* the mouse, held down, has moved to a cell outside a grid that has a live
\* cell, painting dead cells
C8_Witness ==
    /\ last.op = "mouseMove"
    /\ isMouseDown
    /\ drawMode = 0
    /\ OutOfBounds(last.a, last.b)
    /\ \E r \in DOMAIN grid : \E c \in DOMAIN grid[r] : grid[r][c] = 1

\* the cells of the pattern, the anchor at (floor(rows / 2), floor(cols / 2))
PatternCells(pat) ==
    {<<(rows \div 2) + Offsets(pat)[i][1], (cols \div 2) + Offsets(pat)[i][2]>> :
        i \in 1..Len(Offsets(pat))}

C10_DimsInRange ==
    /\ rows \in SliderMin..SliderMax
    /\ cols \in SliderMin..SliderMax
    /\ Length(grid) = rows
    /\ Length(grid[0]) = cols
    /\ last.op \in {"rows", "cols"} =>
          /\ last.a = (IF last.op = "rows" THEN rows ELSE cols)
          /\ last.b < SliderMin => last.a = SliderMin
          /\ last.b > SliderMax => last.a = SliderMax
          /\ last.b \in SliderMin..SliderMax => last.a = last.b

\* the Rows slider was asked for a position above its maximum and the Cols
\* slider, after it, for a position that is not positive
C10_Witness ==
    /\ rows = SliderMax
    /\ cols = SliderMin
    /\ last.op = "cols"
    /\ last.b <= 0

\* the next generation of g, cell by cell: a cell is alive when it was alive
\* with a count of live Moore neighbors in survive, or dead with a count in
\* birth; with wrap the neighbors are taken modulo the dimensions, without
\* it the neighbors outside the grid are not counted
LiveAround(g, r, c, wrap) ==
    LET R == Length(g)
        C == Length(g[0])
    IN  Cardinality({d \in Moore :
            IF wrap THEN g[(r + d[1]) % R][(c + d[2]) % C] = 1
            ELSE /\ r + d[1] \in 0..(R - 1)
                 /\ c + d[2] \in 0..(C - 1)
                 /\ g[r + d[1]][c + d[2]] = 1})

Generation(g, survive, birth, wrap) ==
    [r \in DOMAIN g |->
        [c \in DOMAIN g[r] |->
            IF \/ g[r][c] = 1 /\ LiveAround(g, r, c, wrap) \in CountsIn(survive)
               \/ g[r][c] = 0 /\ LiveAround(g, r, c, wrap) \in CountsIn(birth)
            THEN 1 ELSE 0]]

\* C11: a frame callback applies a step only while the run state is Running,
\* and the toggle that goes from Running to Stopped leaves no callback
\* pending: after a stop no step of the cadence is applied before the next
\* start.
C11_StopHaltsCadence ==
    [][/\ (last'.op = "loop" /\ last'.a = 1) => (running /\ runningRef)
       /\ (last'.op = "loop" /\ ~running) => grid' = grid
       /\ (running /\ ~running') => (~runningRef' /\ frames' = {})]_vars

\* the loop has run a callback since the start, and the stop has cancelled
\* the callback that was pending
C11_Witness ==
    /\ last.op = "toggleRunning"
    /\ ~running
    /\ rafRef >= 2
    /\ frames = {}

\* C12: the Step button, whether the loop runs or not, leaves the grid that
\* is one generation after the current grid, under the current rules and
\* the current Wrap Edges setting, and leaves the run state and the pending
\* callbacks as they were.
C12_StepOnceOneGeneration ==
    [][last'.op = "stepOnce" =>
          /\ ~last'.threw
          /\ grid' = Generation(grid, surviveCounts, birthCounts, wrapEdges)
          /\ UNCHANGED <<running, runningRef, rafRef, frames>>]_vars

\* Step was pressed while the loop ran and left live cells
C12_Witness ==
    /\ last.op = "stepOnce"
    /\ running
    /\ frames # {}
    /\ \E r \in DOMAIN grid : \E c \in DOMAIN grid[r] : grid[r][c] = 1

\* the handlers that paint, randomize, clear, resize and stamp
PaintOps ==
    {"mouseDown", "mouseMove", "mouseUp", "randomize", "clear", "rows", "cols",
     "applyPattern"}

\* painting, Randomize, Clear, the sliders and the pattern menu can all act
PaintEnabled ==
    /\ ENABLED handleMouseDown(0, 0)
    /\ ENABLED handleMouseMove(0, 0)
    /\ ENABLED handleMouseUp
    /\ ENABLED (\E draws \in Draws : randomize(draws))
    /\ ENABLED clear
    /\ ENABLED (\E asked \in Requests : rowsSlider(asked))
    /\ ENABLED (\E asked \in Requests : colsSlider(asked))
    /\ ENABLED (\E pat \in patternOptions : applyPattern(pat))

\* C13: the run state is one of Stopped and Running, Stopped at first; only
\* the Start / Stop button changes it; painting, Randomize, Clear, the
\* sliders and the pattern menu can act in both run states (wherever the
\* model runs handlers at all) and leave the run state and the pending
\* callbacks as they were.
C13_RunStateFrame ==
    /\ [](/\ running \in BOOLEAN
          /\ runningRef = running
          /\ last.op = "init" => ~running
          /\ (Small /\ ops < MaxOps) => PaintEnabled)
    /\ [][/\ running' # running => last'.op = "toggleRunning"
          /\ last'.op \in PaintOps =>
                UNCHANGED <<running, runningRef, rafRef, frames>>]_vars

\* Clear was pressed while the loop ran, and the loop still runs
C13_Witness ==
    /\ last.op = "clear"
    /\ running
    /\ runningRef
    /\ frames # {}

\* the list holds counts of 0..8 only, and none of them twice
IsCountSet(list) ==
    /\ \A i \in 1..Len(list) : list[i] \in 0..8
    /\ \A i, j \in 1..Len(list) : list[i] = list[j] => i = j

\* C14: after any clicks on the survive and birth checkboxes, from the
\* lists [2, 3] and [3], each list holds integers of 0..8 only and holds
\* none of them twice.
C14_RuleListsAreSets ==
    /\ last.op = "init" => (surviveCounts = <<2, 3>> /\ birthCounts = <<3>>)
    /\ IsCountSet(surviveCounts)
    /\ IsCountSet(birthCounts)

\* 2 was taken out of the survive list and put back, behind 3, and 8 was
\* added to the birth list
C14_Witness ==
    /\ surviveCounts = <<3, 2>>
    /\ birthCounts = <<3, 8>>

\* C15: a mouse-down on a cell of the grid sets the draw mode to the
\* opposite of what the cell held and sets the cell to the draw mode; a
\* mouse-move over a cell of the grid, the mouse being down, sets the cell to
\* the draw mode; nothing but a mouse-down on a cell of the grid changes the
\* draw mode, whatever handlers run between the mouse-down and the moves.
C15_GestureDrawMode ==
    [][/\ (last'.op = "mouseDown" /\ ~OutOfBounds(last'.a, last'.b)) =>
             /\ drawMode' = 1 - grid[last'.a][last'.b]
             /\ grid'[last'.a][last'.b] = drawMode'
       /\ (last'.op = "mouseMove" /\ isMouseDown
              /\ ~OutOfBounds(last'.a, last'.b)) =>
             grid'[last'.a][last'.b] = drawMode
       /\ drawMode' # drawMode =>
             (last'.op = "mouseDown" /\ ~OutOfBounds(last'.a, last'.b))]_vars

\* the mouse went down on a live cell, which died, and then moved, still
\* down, over another cell of the grid, which is dead now; other cells live
C15_Witness ==
    /\ last.op = "mouseMove"
    /\ isMouseDown
    /\ drawMode = 0
    /\ ~OutOfBounds(last.a, last.b)
    /\ grid[last.a][last.b] = 0
    /\ \E r \in DOMAIN grid : \E c \in DOMAIN grid[r] : grid[r][c] = 1

\* C19: at most one frame callback is pending at any time, none while the
\* run state is Stopped, and while Running the pending one is the callback
\* whose id rafRef holds.
C19_OneLoop ==
    /\ Cardinality(frames) <= 1
    /\ ~running => frames = {}
    /\ running => \E f \in frames : f.id = rafRef

\* the loop was started, stopped and started again
C19_Witness ==
    /\ last.op = "toggleRunning"
    /\ running
    /\ rafRef = 2
    /\ Cardinality(frames) = 1

\* C20: the mouse counts as down from a mouse-down on the canvas to the next
\* mouse-up on the canvas and at no other time; a mouse-move while it does
\* not count as down leaves the grid and the draw mode as they were.
C20_MoveNeedsMouseDown ==
    /\ [](last.op = "init" => ~isMouseDown)
    /\ [][/\ last'.op = "mouseDown" => isMouseDown'
          /\ last'.op = "mouseUp" => ~isMouseDown'
          /\ last'.op \notin {"mouseDown", "mouseUp"} =>
                isMouseDown' = isMouseDown
          /\ (last'.op = "mouseMove" /\ ~isMouseDown) =>
                (grid' = grid /\ drawMode' = drawMode)]_vars

\* after a mouse-down that made a cell live and a mouse-up, the mouse moved
\* over a dead cell of the grid, which stayed dead
C20_Witness ==
    /\ ops = MaxOps
    /\ last.op = "mouseMove"
    /\ ~isMouseDown
    /\ ~OutOfBounds(last.a, last.b)
    /\ drawMode = 1
    /\ grid[last.a][last.b] = 0
    /\ \E r \in DOMAIN grid : \E c \in DOMAIN grid[r] : grid[r][c] = 1

\* the rules of the constructed component
DefaultRules == surviveCounts = <<2, 3>> /\ birthCounts = <<3>>

\* the cells of the grid that are alive
LiveCells(g) ==
    UNION {{<<r, c>> : c \in {x \in DOMAIN g[r] : g[r][x] # 0}} : r \in DOMAIN g}

\* C16: on the 20 x 30 grid with Wrap Edges on and the rules survive 2, 3 and
\* birth 3, the grid stamped with Blinker has the three cells of the pattern
\* from the center alive; one step gives another grid (the three cells in a
\* column through the middle one) and two steps give the stamped grid back.
C16_BlinkerPeriodTwo ==
    (/\ fn.call = "pattern"
     /\ pattern = "Blinker"
     /\ rows = InitRows
     /\ cols = InitCols
     /\ wrapEdges
     /\ DefaultRules) =>
        /\ LiveCells(fn.stamped) = {<<10, 15>>, <<10, 16>>, <<10, 17>>}
        /\ fn.n % 2 = 1 =>
              /\ grid # fn.stamped
              /\ LiveCells(grid) = {<<9, 16>>, <<10, 16>>, <<11, 16>>}
        /\ fn.n % 2 = 0 => grid = fn.stamped

\* the Blinker stamped on the 20 x 30 grid has been advanced twice
C16_Witness ==
    /\ fn.call = "pattern"
    /\ pattern = "Blinker"
    /\ rows = InitRows
    /\ cols = InitCols
    /\ wrapEdges
    /\ fn.n = 2
    /\ LiveCells(grid) = {<<10, 15>>, <<10, 16>>, <<10, 17>>}

\* C17: with the rules survive 2, 3 and birth 3, Wrap Edges on or off, on a
\* grid of any of the dimensions tried, the grid stamped with Block has four
\* live cells, and every step leaves it as it was stamped.
C17_BlockFixedPoint ==
    (fn.call = "pattern" /\ pattern = "Block" /\ DefaultRules) =>
        /\ Cardinality(LiveCells(fn.stamped)) = 4
        /\ grid = fn.stamped

\* the Block stamped on the smallest grid, Wrap Edges on, has been advanced
C17_Witness ==
    /\ fn.call = "pattern"
    /\ pattern = "Block"
    /\ rows = SliderMin
    /\ cols = SliderMin
    /\ wrapEdges
    /\ fn.n = MaxGens
    /\ LiveCells(grid) = {<<2, 2>>, <<2, 3>>, <<3, 2>>, <<3, 3>>}

\* C18, as claimed: every generation the Step button or the loop applies is
\* one generation of the grid under the Wrap Edges setting the component
\* holds when the step is applied.
C18_StepsUseCurrentTopology ==
    [][(last'.op = "stepOnce" \/ (last'.op = "loop" /\ last'.a = 1)) =>
          grid' = Generation(grid, surviveCounts, birthCounts, wrapEdges)]_vars

====
